---- MODULE Spec2Model ----
(***************************************************************************)
(* A model of gorm-logged: the query builder facade (builder.Model), its   *)
(* deferred preload queue, its trace mapping, the error translation of the *)
(* terminal operations, and the transaction envelope.                      *)
(*                                                                         *)
(* Go reference semantics are kept: a facade holds a pointer to an engine  *)
(* handle (a gorm.DB pointer), a reference to a trace map (logrus.Fields  *)
(* is a Go map) and a slice header (array, len, cap) over a backing array  *)
(* of preload directives.  Handles, maps and arrays live in heaps.         *)
(***************************************************************************)
EXTENDS Naturals, Sequences, FiniteSets, TLC

VARIABLES
    facades,   \* heap of builder.Model values, facade 1 is the one New returns
    dbs,       \* heap of engine handles (gorm.DB): clone flag, statement, transaction
    maps,      \* heap of trace maps (logrus.Fields)
    arrays,    \* heap of backing arrays of the preloads slices
    txs,       \* engine transactions: "live" or "done"
    chain,     \* history: for each facade the configuration calls of its chain
    parent,    \* history: for each facade the receiver it was derived from
    lastCall   \* the last terminal or transaction call: engine calls, result, log

vars == <<facades, dbs, maps, arrays, txs, chain, parent, lastCall>>

-----------------------------------------------------------------------------
(* Bounds of the model. *)

MaxPreloadFacades == 6
MaxTraceFacades == 4
MaxApplyFacades == 3
MaxErrFacades == 3
MaxTxFacades == 3
MaxReuseFacades == 3
MaxStmt == 4

(* Argument values the calls are tried with. *)
Columns == {"Role", "Owner"}
CondLists == {<<>>, <<"active">>}
Queries == {"q1", "q2"}
ArgLists == {<<>>, <<"x">>}

-----------------------------------------------------------------------------
(* Errors.  An error is the chain errors.Is walks: the error itself first, *)
(* then what it wraps.  The nil error is the empty chain.                  *)

Nil == <<>>
ErrInternal == <<"internal server error">>
ErrNotFound == <<"not found">>
ErrRecordNotFound == <<"gorm: record not found">>
ErrTxDone == <<"sql: transaction has already been committed or rolled back">>
ErrInvalidTransaction == <<"gorm: invalid transaction">>
ErrDriver == <<"driver: bad connection">>
Wrap(msg, err) == <<msg>> \o err

ErrorsIs(err, target) == \E i \in 1..Len(err) : err[i] = target[1]

(* What the engine can answer to a query, and what a caller can hand over. *)
EngineErrors == {Nil, ErrRecordNotFound, Wrap("scan", ErrRecordNotFound), ErrDriver}
CallerErrors == {Nil, <<"business rule">>, ErrNotFound}

-----------------------------------------------------------------------------
(* Values. *)

Directive(column, conditions) == [field |-> column, conditions |-> conditions]
ZeroDirective == Directive("", <<>>)
NilSlice == [arr |-> 0, len |-> 0, cap |-> 0]
Clause(fn) == [fn |-> fn, field |-> "", conditions |-> <<>>]
PreloadClause(d) == [fn |-> "Preload", field |-> d.field, conditions |-> d.conditions]
EmptyFields == [k \in {} |-> <<>>]
Pretty(v) == <<"pretty", v>>
Itoa(i) == ToString(i)
NoCall ==
    [op |-> "none", recv |-> 0, calls |-> <<>>, stmt |-> <<>>, err |-> Nil,
     arg |-> Nil, result |-> Nil, logs |-> <<>>, txWas |-> "none"]

MapPut(mp, k, v) == [x \in DOMAIN mp \cup {k} |-> IF x = k THEN v ELSE mp[x]]

(* The directives a slice header reads from its backing array. *)
SliceElems(heap, s) == IF s.len = 0 THEN <<>> ELSE SubSeq(heap[s.arr], 1, s.len)
Queue(f) == SliceElems(arrays, facades[f].preloads)
TraceOf(f) == IF facades[f].logTrace = 0 THEN EmptyFields ELSE maps[facades[f].logTrace]

-----------------------------------------------------------------------------
(* The engine handle.  gorm.Open returns a handle whose builder methods    *)
(* start a fresh statement (clone = 1); a handle a builder method returned *)
(* is extended in place by the next builder method (clone = 0), which is   *)
(* what the comment over applyPreloads describes; a handle Begin made of a *)
(* chained handle copies its statement on the next call (clone = 2).       *)

EngineChain(heap, h, clause) ==
    IF heap[h].clone > 0
    THEN [heap |-> Append(heap, [clone |-> 0, tx |-> heap[h].tx,
                                 stmt |-> (IF heap[h].clone = 1 THEN <<>> ELSE heap[h].stmt)
                                          \o <<clause>>]),
          db |-> Len(heap) + 1]
    ELSE [heap |-> [heap EXCEPT ![h].stmt = Append(@, clause)], db |-> h]

(* The statement a finisher method (Find, Count, ...) runs on handle h. *)
StmtAt(heap, h) == IF heap[h].clone = 1 THEN <<>> ELSE heap[h].stmt

-----------------------------------------------------------------------------
Init ==
    /\ facades = <<[db |-> 1, logTrace |-> 0, preloads |-> NilSlice]>>
    /\ dbs = <<[clone |-> 1, tx |-> 0, stmt |-> <<>>]>>
    /\ maps = <<>>
    /\ arrays = <<>>
    /\ txs = <<>>
    /\ chain = << <<>> >>
    /\ parent = <<0>>
    /\ lastCall = NoCall

-----------------------------------------------------------------------------
(* Configuration calls. *)

initLogTrace(heap, trace) ==
    IF trace = 0
    THEN [maps |-> Append(heap, EmptyFields), trace |-> Len(heap) + 1]
    ELSE [maps |-> heap, trace |-> trace]

(* The first i, counting from 0, for which prefix+Itoa(i) is no key of mp. *)
RECURSIVE firstUnused(_, _, _)
firstUnused(mp, prefix, i) ==
    IF (prefix \o Itoa(i)) \in DOMAIN mp THEN firstUnused(mp, prefix, i + 1) ELSE i

(* Go's append on a slice header: in place when the capacity allows,       *)
(* otherwise into a new backing array of grown capacity.  The runtime      *)
(* doubles a small slice (or takes the needed length when that is more),   *)
(* and for this element type the size classes keep those capacities: a     *)
(* slice grows through capacities 1, 2, 4, 8.                              *)
GrowCap(oldCap, needed) == IF needed > 2 * oldCap THEN needed ELSE 2 * oldCap

GoAppend(heap, s, d) ==
    IF s.len < s.cap
    THEN [arrays |-> [heap EXCEPT ![s.arr][s.len + 1] = d],
          slice |-> [arr |-> s.arr, len |-> s.len + 1, cap |-> s.cap]]
    ELSE LET newCap == GrowCap(s.cap, s.len + 1)
             fresh == [i \in 1..newCap |->
                          IF i <= s.len THEN heap[s.arr][i]
                          ELSE IF i = s.len + 1 THEN d ELSE ZeroDirective]
         IN [arrays |-> Append(heap, fresh),
             slice |-> [arr |-> Len(heap) + 1, len |-> s.len + 1, cap |-> newCap]]

(* The facade a configuration call returns: &Model{db: ..., logTrace: ..., *)
(* preloads: ...}, added to the heap; call is the history entry.           *)
NewFacade(r, db, logTrace, preloads, call) ==
    /\ facades' = Append(facades, [db |-> db, logTrace |-> logTrace, preloads |-> preloads])
    /\ chain' = Append(chain, chain[r] \o call)
    /\ parent' = Append(parent, r)
    /\ lastCall' = NoCall

(* The shape shared by Model, Select, Table, Limit, ...: the trace map the *)
(* receiver holds (or a new one) gets the entries, the engine handle the   *)
(* clause, and the preloads slice header is copied.                        *)
Configure(r, fn, entries) ==
    LET m == facades[r]
        t == initLogTrace(maps, m.logTrace)
        e == EngineChain(dbs, m.db, Clause(fn))
    IN /\ maps' = [t.maps EXCEPT ![t.trace] =
                      [k \in DOMAIN @ \cup DOMAIN entries |->
                          IF k \in DOMAIN entries THEN entries[k] ELSE @[k]]]
       /\ dbs' = e.heap
       /\ UNCHANGED <<arrays, txs>>
       /\ NewFacade(r, e.db, t.trace, m.preloads, <<[kind |-> fn, dir |-> ZeroDirective]>>)

Preload(r, column, conditions) ==
    LET m == facades[r]
        t == initLogTrace(maps, m.logTrace)
        withColumn == MapPut(t.maps[t.trace], "preloadColumn-" \o column, column)
        trace == IF Len(conditions) > 0
                 THEN MapPut(withColumn, "preloadConditions-" \o column, conditions)
                 ELSE withColumn
        a == GoAppend(arrays, m.preloads, Directive(column, conditions))
    IN /\ maps' = [t.maps EXCEPT ![t.trace] = trace]
       /\ arrays' = a.arrays
       /\ UNCHANGED <<dbs, txs>>
       /\ NewFacade(r, m.db, t.trace, a.slice,
                    <<[kind |-> "Preload", dir |-> Directive(column, conditions)]>>)

Debug(r) ==
    LET m == facades[r]
        e == EngineChain(dbs, m.db, Clause("Debug"))
    IN /\ dbs' = e.heap
       /\ UNCHANGED <<maps, arrays, txs>>
       /\ NewFacade(r, e.db, m.logTrace, m.preloads, <<[kind |-> "Debug", dir |-> ZeroDirective]>>)

(* Unscoped writes into initLogTrace's map but hands on m.logTrace: a map  *)
(* made for a receiver without one is dropped.                             *)
Unscoped(r) ==
    LET m == facades[r]
        e == EngineChain(dbs, m.db, Clause("Unscoped"))
    IN /\ maps' = IF m.logTrace = 0 THEN maps
                  ELSE [maps EXCEPT ![m.logTrace] = MapPut(@, "unscoped", TRUE)]
       /\ dbs' = e.heap
       /\ UNCHANGED <<arrays, txs>>
       /\ NewFacade(r, e.db, m.logTrace, m.preloads,
                    <<[kind |-> "Unscoped", dir |-> ZeroDirective]>>)

Model(r, value) == Configure(r, "Model", [k \in {"model"} |-> Pretty(value)])

Select(r, query, args) ==
    Configure(r, "Select",
              IF Len(args) > 0
              THEN [k \in {"selectQuery", "selectArgs"} |->
                       IF k = "selectQuery" THEN query ELSE Pretty(args)]
              ELSE [k \in {"selectQuery"} |-> query])

Table(r, name) == Configure(r, "Table", [k \in {"tableName"} |-> name])

Limit(r, limit) == Configure(r, "Limit", [k \in {"limit"} |-> limit])

Offset(r, offset) == Configure(r, "Offset", [k \in {"offset"} |-> offset])

Order(r, value) == Configure(r, "Order", [k \in {"order"} |-> Pretty(value)])

Joins(r, query, args) ==
    LET i == firstUnused(TraceOf(r), "joinsQuery", 0)
    IN Configure(r, "Joins",
                 IF Len(args) > 0
                 THEN [k \in {"joinsQuery" \o Itoa(i), "joinsArgs" \o Itoa(i)} |->
                          IF k = "joinsQuery" \o Itoa(i) THEN query ELSE Pretty(args)]
                 ELSE [k \in {"joinsQuery" \o Itoa(i)} |-> query])

Set(r, name, value) ==
    LET i == firstUnused(TraceOf(r), "setName", 0)
    IN Configure(r, "Set",
                 [k \in {"setName" \o Itoa(i), "setValue" \o Itoa(i)} |->
                     IF k = "setName" \o Itoa(i) THEN name ELSE value])

IgnoreConflicts(r) == Configure(r, "Clauses", [k \in {"ignoreConflicts"} |-> TRUE])

Omit(r, value) == Configure(r, "Omit", [k \in {"omit"} |-> value])

Where(r, query, args) ==
    LET i == firstUnused(TraceOf(r), "whereQuery", 0)
    IN Configure(r, "Where",
                 IF Len(args) > 0
                 THEN [k \in {"whereQuery" \o Itoa(i), "whereArgs" \o Itoa(i)} |->
                          IF k = "whereQuery" \o Itoa(i) THEN Pretty(query) ELSE Pretty(args)]
                 ELSE [k \in {"whereQuery" \o Itoa(i)} |-> Pretty(query)])

Not(r, query, args) ==
    Configure(r, "Not",
              IF Len(args) > 0
              THEN [k \in {"notQuery", "notArgs"} |->
                       IF k = "notQuery" THEN Pretty(query) ELSE args]
              ELSE [k \in {"notQuery"} |-> Pretty(query)])

Group(r, name) == Configure(r, "Group", [k \in {"groupName"} |-> name])

Having(r, query, args) ==
    Configure(r, "Having",
              IF Len(args) > 0
              THEN [k \in {"havingQuery", "havingArgs"} |->
                       IF k = "havingQuery" THEN query ELSE args]
              ELSE [k \in {"havingQuery"} |-> query])

raw(r, sql, values) ==
    Configure(r, "Raw",
              IF Len(values) > 0
              THEN [k \in {"rawSql", "rawValues"} |-> IF k = "rawSql" THEN sql ELSE values]
              ELSE [k \in {"rawSql"} |-> sql])


-----------------------------------------------------------------------------
(* Terminal operations. *)

(* applyPreloads: one engine Preload per directive, first directive first, *)
(* each on the handle the previous one returned; m is the receiver as the  *)
(* call reads it: its handle, its trace map and the directives of its      *)
(* slice.  Returns the engine heap, the handle to run on and the calls.    *)
applyPreloadsFirstOnly(heap, m) ==
    IF Len(m.preloads) > 0
    THEN LET e == EngineChain(heap, m.db, PreloadClause(m.preloads[1]))
         IN [heap |-> e.heap, db |-> e.db, logTrace |-> m.logTrace,
             calls |-> <<PreloadClause(m.preloads[1])>>]
    ELSE [heap |-> heap, db |-> m.db, logTrace |-> m.logTrace, calls |-> <<>>]

RECURSIVE applyPreloads(_, _)
applyPreloads(heap, m) ==
    IF Len(m.preloads) > 0
    THEN LET e == EngineChain(heap, m.db, PreloadClause(m.preloads[1]))
             rest == applyPreloads(e.heap, [db |-> e.db, logTrace |-> m.logTrace,
                                            preloads |-> Tail(m.preloads)])
         IN [heap |-> rest.heap, db |-> rest.db, logTrace |-> rest.logTrace,
             calls |-> <<PreloadClause(m.preloads[1])>> \o rest.calls]
    ELSE [heap |-> heap, db |-> m.db, logTrace |-> m.logTrace, calls |-> <<>>]

(* The receiver as a method reads it. *)
Receiver(r) ==
    [db |-> facades[r].db, logTrace |-> facades[r].logTrace, preloads |-> Queue(r)]

(* Without applyPreloads the finisher runs on the receiver's own handle. *)
OwnHandle(r) == [heap |-> dbs, db |-> facades[r].db, calls |-> <<>>]

(* if errors.Is(err, gorm.ErrRecordNotFound) return ErrNotFound; if err != nil *)
(* log and return ErrInternal; return nil.                                      *)
NotFoundByEquality(err, msg) ==
    IF err = ErrRecordNotFound THEN [result |-> ErrNotFound, logs |-> <<>>]
    ELSE IF err # Nil THEN [result |-> ErrInternal, logs |-> <<msg>>]
    ELSE [result |-> Nil, logs |-> <<>>]

NotFoundOrInternal(err, msg) ==
    IF ErrorsIs(err, ErrRecordNotFound) THEN [result |-> ErrNotFound, logs |-> <<>>]
    ELSE IF err # Nil THEN [result |-> ErrInternal, logs |-> <<msg>>]
    ELSE [result |-> Nil, logs |-> <<>>]

InternalOnlyLeaky(err, msg) ==
    IF err # Nil THEN [result |-> err, logs |-> <<msg>>]
    ELSE [result |-> Nil, logs |-> <<>>]

(* if err != nil log and return ErrInternal; return nil. *)
InternalOnly(err, msg) ==
    IF err # Nil THEN [result |-> ErrInternal, logs |-> <<msg>>]
    ELSE [result |-> Nil, logs |-> <<>>]

(* A terminal call's effect: the engine calls made through handle ap.db,   *)
(* the finisher's error err, and what the method returns and logs.  The    *)
(* handles made on the way are unreachable afterwards.                     *)
FinishArg(op, r, ap, finishers, err, out, arg) ==
    /\ Len(dbs[facades[r].db].stmt) < MaxStmt
    /\ dbs' = SubSeq(ap.heap, 1, Len(dbs))
    /\ lastCall' = [op |-> op, recv |-> r, calls |-> ap.calls \o finishers,
                    stmt |-> StmtAt(ap.heap, ap.db), err |-> err, arg |-> arg,
                    result |-> out.result, logs |-> out.logs, txWas |-> "none"]
    /\ UNCHANGED <<facades, maps, arrays, txs, chain, parent>>

Finish(op, r, ap, finishers, err, out) == FinishArg(op, r, ap, finishers, err, out, Nil)

Pluck(r, err) ==
    Finish("Pluck", r, applyPreloads(dbs, Receiver(r)), <<Clause("Pluck")>>, err,
           InternalOnly(err, "can't pluck object from the database"))

First(r, err) ==
    Finish("First", r, applyPreloads(dbs, Receiver(r)), <<Clause("First")>>, err,
           NotFoundOrInternal(err, "can't get first object from the database"))

Last(r, err) ==
    Finish("Last", r, applyPreloads(dbs, Receiver(r)), <<Clause("Last")>>, err,
           NotFoundOrInternal(err, "can't get last object from the database"))

Take(r, err) ==
    Finish("Take", r, applyPreloads(dbs, Receiver(r)), <<Clause("Take")>>, err,
           NotFoundOrInternal(err, "can't take object from the database"))

Find(r, err) ==
    Finish("Find", r, applyPreloads(dbs, Receiver(r)), <<Clause("Find")>>, err,
           InternalOnly(err, "can't find from the database"))

Scan(r, err) ==
    Finish("Scan", r, applyPreloads(dbs, Receiver(r)), <<Clause("Scan")>>, err,
           InternalOnly(err, "can't scan from the database"))

Create(r, err) ==
    Finish("Create", r, applyPreloads(dbs, Receiver(r)), <<Clause("Create")>>, err,
           InternalOnly(err, "can't create value in database"))

Save(r, err) ==
    Finish("Save", r, applyPreloads(dbs, Receiver(r)), <<Clause("Save")>>, err,
           InternalOnly(err, "can't save object in a database"))

Updates(r, err) ==
    Finish("Updates", r, applyPreloads(dbs, Receiver(r)), <<Clause("Updates")>>, err,
           InternalOnly(err, "can't update object in database"))

Delete(r, err) ==
    Finish("Delete", r, applyPreloads(dbs, Receiver(r)), <<Clause("Delete")>>, err,
           InternalOnly(err, "can't delete object from DB"))

Count(r, err) ==
    Finish("Count", r, OwnHandle(r), <<Clause("Count")>>, err,
           InternalOnly(err, "can't count objects in DB"))

exec(r, err) ==
    Finish("exec", r, applyPreloads(dbs, Receiver(r)), <<Clause("Exec")>>, err,
           InternalOnly(err, "can't exec sql in DB"))

(* The engine's error holds whatever the per-batch callback returned. *)
BatchFind(r, err) ==
    Finish("BatchFind", r, applyPreloads(dbs, Receiver(r)), <<Clause("FindInBatches")>>, err,
           InternalOnly(err, "can't find from the database"))

(* Filters: a value and its Go type, a struct User{ID} or a pointer to one *)
(* (the empty sequence is the nil pointer).                                *)
Filters ==
    {[type |-> "User", val |-> <<0>>], [type |-> "User", val |-> <<7>>],
     [type |-> "*User", val |-> <<>>], [type |-> "*User", val |-> << <<0>> >>]}
ReflectZero(type) ==
    IF type = "User" THEN [type |-> type, val |-> <<0>>] ELSE [type |-> type, val |-> <<>>]
DeepEqualStructsOnly(a, b) == a.type = "User" /\ a.type = b.type /\ a.val = b.val
DeepEqual(a, b) == a.type = b.type /\ a.val = b.val

UpdateByFilter(r, filter, err) ==
    IF DeepEqual(filter, ReflectZero(filter.type))
    THEN /\ lastCall' = [op |-> "UpdateByFilter", recv |-> r, calls |-> <<>>, stmt |-> <<>>,
                         err |-> Nil, arg |-> filter, result |-> ErrInternal,
                         logs |-> <<"queryBuilder.UpdateByFilter called for empty filter">>,
                         txWas |-> "none"]
         /\ err = Nil
         /\ UNCHANGED <<facades, dbs, maps, arrays, txs, chain, parent>>
    ELSE LET ap == applyPreloads(dbs, Receiver(r))
             md == EngineChain(ap.heap, ap.db, Clause("Model"))
             wh == EngineChain(md.heap, md.db, Clause("Where"))
         IN FinishArg("UpdateByFilter", r,
                      [heap |-> wh.heap, db |-> wh.db,
                       calls |-> ap.calls \o <<Clause("Model"), Clause("Where")>>],
                      <<Clause("Updates")>>, err,
                      InternalOnly(err, "can't update object in database"), filter)

-----------------------------------------------------------------------------
(* The transaction envelope. *)

TxState(h) == IF dbs[h].tx = 0 THEN "none" ELSE txs[dbs[h].tx]

(* What Commit or Rollback of the engine can report on handle h. *)
TxErrors(h) ==
    IF TxState(h) = "none" THEN {ErrInvalidTransaction}
    ELSE IF TxState(h) = "done" THEN {ErrTxDone, Wrap("driver: bad connection", ErrTxDone)}
    ELSE {Nil, ErrDriver}

(* A commit or rollback ends the transaction whatever it reports. *)
EndTx(h) ==
    IF dbs[h].tx = 0 THEN UNCHANGED txs ELSE txs' = [txs EXCEPT ![dbs[h].tx] = "done"]

(* The engine's Begin opens a transaction; on a handle that is in one it   *)
(* returns a handle on that transaction.  The facade starts with no trace *)
(* map and no preloads.                                                    *)
Begin(r) ==
    LET h == facades[r].db
        cl == IF dbs[h].clone = 1 THEN 1 ELSE 2
        tx == IF dbs[h].tx = 0 THEN Len(txs) + 1 ELSE dbs[h].tx
    IN /\ txs' = IF dbs[h].tx = 0 THEN Append(txs, "live") ELSE txs
       /\ dbs' = Append(dbs, [clone |-> cl, tx |-> tx, stmt |-> StmtAt(dbs, h)])
       /\ facades' = Append(facades, [db |-> Len(dbs) + 1, logTrace |-> 0,
                                      preloads |-> NilSlice])
       /\ chain' = Append(chain, <<>>)
       /\ parent' = Append(parent, r)
       /\ lastCall' = NoCall
       /\ UNCHANGED <<maps, arrays>>

TxCall(op, fn, r, err, arg, result, logs) ==
    /\ err \in TxErrors(facades[r].db)
    /\ EndTx(facades[r].db)
    /\ lastCall' = [op |-> op, recv |-> r, calls |-> <<Clause(fn)>>, stmt |-> <<>>,
                    err |-> err, arg |-> arg, result |-> result, logs |-> logs,
                    txWas |-> TxState(facades[r].db)]
    /\ UNCHANGED <<facades, dbs, maps, arrays, chain, parent>>

Commit(r, err) ==
    LET out == InternalOnly(err, "can't commit transaction")
    IN TxCall("Commit", "Commit", r, err, Nil, out.result, out.logs)

RollbackWithErrorShadowed(r, err, rollbackErr) ==
    TxCall("RollbackWithError", "Rollback", r, rollbackErr, err,
           IF rollbackErr # Nil THEN rollbackErr ELSE err,
           IF rollbackErr # Nil THEN <<"can't rollback transaction">> ELSE <<>>)

RollbackWithError(r, err, rollbackErr) ==
    TxCall("RollbackWithError", "Rollback", r, rollbackErr, err, err,
           IF rollbackErr # Nil THEN <<"can't rollback transaction">> ELSE <<>>)

RollBackLogsTxDone(r, err) ==
    TxCall("RollBack", "Rollback", r, err, Nil, Nil,
           IF err = Nil THEN <<>> ELSE <<"can't rollback transaction">>)

RollBack(r, err) ==
    TxCall("RollBack", "Rollback", r, err, Nil, Nil,
           IF err = Nil THEN <<>>
           ELSE IF ErrorsIs(err, ErrTxDone) THEN <<>>
           ELSE <<"can't rollback transaction">>)

-----------------------------------------------------------------------------
(* Specifications. *)

Recv(bound) == IF Len(facades) < bound THEN 1..Len(facades) ELSE {}
All == 1..Len(facades)
AllErrors == EngineErrors \cup {ErrTxDone, Wrap("driver: bad connection", ErrTxDone),
                                ErrInvalidTransaction}

(* Every configuration call, for the claims about the trace mapping. *)
NextTrace ==
    \/ \E r \in Recv(MaxTraceFacades), c \in Columns, k \in CondLists : Preload(r, c, k)
    \/ \E r \in Recv(MaxTraceFacades) : Debug(r)
    \/ \E r \in Recv(MaxTraceFacades) : Unscoped(r)
    \/ \E r \in Recv(MaxTraceFacades) : Model(r, "User")
    \/ \E r \in Recv(MaxTraceFacades), a \in ArgLists : Select(r, "name", a)
    \/ \E r \in Recv(MaxTraceFacades) : Table(r, "users")
    \/ \E r \in Recv(MaxTraceFacades) : Limit(r, 10)
    \/ \E r \in Recv(MaxTraceFacades) : Offset(r, 5)
    \/ \E r \in Recv(MaxTraceFacades) : Order(r, "id desc")
    \/ \E r \in Recv(MaxTraceFacades), a \in ArgLists : Joins(r, "JOIN roles", a)
    \/ \E r \in Recv(MaxTraceFacades) : Set(r, "gorm:query_option", "FOR UPDATE")
    \/ \E r \in Recv(MaxTraceFacades) : IgnoreConflicts(r)
    \/ \E r \in Recv(MaxTraceFacades) : Omit(r, <<"password">>)
    \/ \E r \in Recv(MaxTraceFacades), q \in Queries, a \in ArgLists : Where(r, q, a)
    \/ \E r \in Recv(MaxTraceFacades), q \in Queries, a \in ArgLists : Not(r, q, a)
    \/ \E r \in Recv(MaxTraceFacades) : Group(r, "role")
    \/ \E r \in Recv(MaxTraceFacades), a \in ArgLists : Having(r, "count(*) > 1", a)
    \/ \E r \in Recv(MaxTraceFacades), a \in ArgLists : raw(r, "SELECT 1", a)

SpecTrace == Init /\ [][NextTrace]_vars

(* Preload chains long enough to leave spare capacity, interleaved with    *)
(* another configuration call, and a terminal that reads the queue.        *)
NextPreload ==
    \/ \E r \in Recv(MaxPreloadFacades), c \in Columns : Preload(r, c, <<>>)
    \/ \E r \in Recv(MaxPreloadFacades) : Limit(r, 10)
    \/ \E r \in All : Find(r, Nil)

SpecPreload == Init /\ [][NextPreload]_vars

(* Every terminal operation on facades with and without pending preloads   *)
(* and with fresh and chained engine handles; the engine succeeds.         *)
NextApply ==
    \/ \E r \in Recv(MaxApplyFacades), k \in CondLists : Preload(r, "Role", k)
    \/ \E r \in Recv(MaxApplyFacades) : Where(r, "q1", <<>>)
    \/ \E r \in All : Pluck(r, Nil)
    \/ \E r \in All : First(r, Nil)
    \/ \E r \in All : Last(r, Nil)
    \/ \E r \in All : Take(r, Nil)
    \/ \E r \in All : Find(r, Nil)
    \/ \E r \in All : Scan(r, Nil)
    \/ \E r \in All : Create(r, Nil)
    \/ \E r \in All : Save(r, Nil)
    \/ \E r \in All : Updates(r, Nil)
    \/ \E r \in All : Delete(r, Nil)
    \/ \E r \in All : Count(r, Nil)
    \/ \E r \in All : exec(r, Nil)
    \/ \E r \in All : BatchFind(r, Nil)
    \/ \E r \in All, f \in Filters : UpdateByFilter(r, f, Nil)

SpecApply == Init /\ [][NextApply]_vars

(* Every terminal operation and Commit with every answer of the engine. *)
NextTerminal ==
    \/ \E r \in Recv(MaxErrFacades) : Preload(r, "Role", <<>>)
    \/ \E r \in Recv(MaxErrFacades) : Begin(r)
    \/ \E r \in All, e \in EngineErrors : Pluck(r, e)
    \/ \E r \in All, e \in EngineErrors : First(r, e)
    \/ \E r \in All, e \in EngineErrors : Last(r, e)
    \/ \E r \in All, e \in EngineErrors : Take(r, e)
    \/ \E r \in All, e \in EngineErrors : Find(r, e)
    \/ \E r \in All, e \in EngineErrors : Scan(r, e)
    \/ \E r \in All, e \in EngineErrors : Create(r, e)
    \/ \E r \in All, e \in EngineErrors : Save(r, e)
    \/ \E r \in All, e \in EngineErrors : Updates(r, e)
    \/ \E r \in All, e \in EngineErrors : Delete(r, e)
    \/ \E r \in All, e \in EngineErrors : Count(r, e)
    \/ \E r \in All, e \in EngineErrors : exec(r, e)
    \/ \E r \in All, e \in EngineErrors : BatchFind(r, e)
    \/ \E r \in All, f \in Filters, e \in EngineErrors : UpdateByFilter(r, f, e)
    \/ \E r \in All, e \in AllErrors : Commit(r, e)

SpecTerminal == Init /\ [][NextTerminal]_vars

(* The transaction envelope, on the root facade, on transaction facades    *)
(* and on facades chained from them.                                       *)
NextTx ==
    \/ \E r \in Recv(MaxTxFacades) : Where(r, "q1", <<>>)
    \/ \E r \in Recv(MaxTxFacades) : Begin(r)
    \/ \E r \in All, e \in AllErrors : Commit(r, e)
    \/ \E r \in All, c \in CallerErrors, e \in AllErrors : RollbackWithError(r, c, e)
    \/ \E r \in All, e \in AllErrors : RollBack(r, e)

SpecTx == Init /\ [][NextTx]_vars

(* One facade used for several terminal operations, as in the README's     *)
(* Count followed by Find: preloads queued on fresh and on chained engine  *)
(* handles, and terminal operations that succeed or fail.                  *)
NextReuse ==
    \/ \E r \in Recv(MaxReuseFacades), c \in Columns : Preload(r, c, <<>>)
    \/ \E r \in Recv(MaxReuseFacades) : Where(r, "q1", <<>>)
    \/ \E r \in All, e \in EngineErrors : Count(r, e)
    \/ \E r \in All, e \in EngineErrors : Find(r, e)
    \/ \E r \in All, e \in EngineErrors : First(r, e)

SpecReuse == Init /\ [][NextReuse]_vars

(* The whole program: every call on every facade. *)
Next == NextTrace \/ NextPreload \/ NextApply \/ NextTerminal \/ NextTx \/ NextReuse

Spec == Init /\ [][Next]_vars

-----------------------------------------------------------------------------
(* Properties. *)

(* The directives of the Preload calls of facade f's chain, in call order. *)
PreloadCalls(f) ==
    LET calls == SelectSeq(chain[f], LAMBDA c : c.kind = "Preload")
    IN [i \in 1..Len(calls) |-> calls[i].dir]

(* The directives of the engine Preload calls among a sequence of clauses. *)
PreloadsOf(clauses) ==
    LET ps == SelectSeq(clauses, LAMBDA c : c.fn = "Preload")
    IN [i \in 1..Len(ps) |-> Directive(ps[i].field, ps[i].conditions)]

IsSuffix(s, t) == Len(s) <= Len(t) /\ SubSeq(t, Len(t) - Len(s) + 1, Len(t)) = s

(* The terminal operations of the common protocol. *)
Terminals ==
    {"First", "Last", "Take", "Find", "Pluck", "Scan", "Create", "Save", "Updates",
     "UpdateByFilter", "Delete", "Count", "BatchFind"}
EngineInvoked == lastCall.op \in Terminals /\ lastCall.calls # <<>>

(* C1: when a terminal operation has applied the preloads of its receiver, *)
(* the directives it applied to the engine handle are the Preload calls of *)
(* the receiver's chain, in call order, none dropped and repeats kept.     *)
C1_AppliedIsChainOrder ==
    lastCall.op = "Find" => PreloadsOf(lastCall.calls) = PreloadCalls(lastCall.recv)

(* C4: every facade's preload queue is the Preload calls of its own chain: *)
(* deriving another facade from A changes neither A's queue nor the queue  *)
(* of a facade derived from A before.                                      *)
C4_QueuesIndependent == \A f \in All : Queue(f) = PreloadCalls(f)

(* C3: no configuration call changes the trace mapping of a facade that    *)
(* exists already, the receiver and its other derived facades included.    *)
C3_TraceNeverMutated ==
    [][\A f \in 1..Len(facades) : TraceOf(f)' = TraceOf(f)]_vars

(* The keys a kind of call writes its first entry under, with or without   *)
(* an index, and the number of them facade f's trace mapping holds.        *)
KeysOfKind(prefix) == {prefix} \cup {prefix \o Itoa(i) : i \in 0..Len(facades)}
EntriesOfKind(f, prefix) == Cardinality(DOMAIN TraceOf(f) \cap KeysOfKind(prefix))
CallsOfKind(f, kind) == Len(SelectSeq(chain[f], LAMBDA c : c.kind = kind))
PreloadCallsOf(f, column) ==
    Len(SelectSeq(chain[f], LAMBDA c : c.kind = "Preload" /\ c.dir.field = column))
OneChain == \A g \in 2..Len(facades) : parent[g] = g - 1

(* C10: at the end of one chain, the trace mapping holds as many entries   *)
(* of a kind (Where, Joins, Set, Not, Having, Select, Order, Preload of    *)
(* one association) as the chain has calls of that kind.                   *)
C10_EntryPerCall ==
    OneChain =>
        LET f == Len(facades)
        IN /\ EntriesOfKind(f, "whereQuery") = CallsOfKind(f, "Where")
           /\ EntriesOfKind(f, "joinsQuery") = CallsOfKind(f, "Joins")
           /\ EntriesOfKind(f, "setName") = CallsOfKind(f, "Set")
           /\ EntriesOfKind(f, "notQuery") = CallsOfKind(f, "Not")
           /\ EntriesOfKind(f, "havingQuery") = CallsOfKind(f, "Having")
           /\ EntriesOfKind(f, "selectQuery") = CallsOfKind(f, "Select")
           /\ EntriesOfKind(f, "order") = CallsOfKind(f, "Order")
           /\ \A c \in Columns :
                  EntriesOfKind(f, "preloadColumn-" \o c) = PreloadCallsOf(f, c)

(* C2 as stated: whenever a terminal operation invokes the engine, it has  *)
(* applied the receiver's whole pending queue and the handle it runs on    *)
(* carries it.                                                             *)
C2_EveryTerminalApplies ==
    EngineInvoked =>
        /\ PreloadsOf(lastCall.calls) = Queue(lastCall.recv)
        /\ IsSuffix(Queue(lastCall.recv), PreloadsOf(lastCall.stmt))

(* C2 amended: every terminal operation but Count applies the receiver's   *)
(* whole pending queue, in order and before its engine operation, to the   *)
(* handle it then runs on; Count applies no directive and runs on the      *)
(* receiver's own handle.                                                  *)
C2_AllButCountApply ==
    EngineInvoked =>
        IF lastCall.op = "Count"
        THEN /\ lastCall.calls = <<Clause("Count")>>
             /\ lastCall.stmt = StmtAt(dbs, facades[lastCall.recv].db)
        ELSE /\ PreloadsOf(lastCall.calls) = Queue(lastCall.recv)
             /\ \A i \in 1..Len(Queue(lastCall.recv)) : lastCall.calls[i].fn = "Preload"
             /\ IsSuffix(Queue(lastCall.recv), PreloadsOf(lastCall.stmt))

C2_Witness ==
    /\ lastCall.op = "Find"
    /\ Len(Queue(lastCall.recv)) = 2
    /\ Queue(lastCall.recv)[1] # Queue(lastCall.recv)[2]
    /\ PreloadsOf(lastCall.stmt) = Queue(lastCall.recv)

(* C5 as stated: every terminal operation answers nil to a nil engine      *)
(* error, the not-found sentinel without a log record to an error that is  *)
(* or wraps record-not-found, and the internal-error sentinel after one    *)
(* log record to any other error.                                          *)
C5_ThreeWayEverywhere ==
    EngineInvoked =>
        IF lastCall.err = Nil THEN lastCall.result = Nil
        ELSE IF ErrorsIs(lastCall.err, ErrRecordNotFound)
             THEN lastCall.result = ErrNotFound /\ lastCall.logs = <<>>
             ELSE lastCall.result = ErrInternal /\ Len(lastCall.logs) = 1

(* C5 amended: First, Last and Take answer that way; every other terminal  *)
(* operation answers nil to a nil engine error and the internal-error      *)
(* sentinel after one log record to every non-nil one, record-not-found    *)
(* included.                                                               *)
C5_ThreeWayOnlySingular ==
    EngineInvoked =>
        IF lastCall.err = Nil THEN lastCall.result = Nil /\ lastCall.logs = <<>>
        ELSE IF lastCall.op \in {"First", "Last", "Take"}
                /\ ErrorsIs(lastCall.err, ErrRecordNotFound)
             THEN lastCall.result = ErrNotFound /\ lastCall.logs = <<>>
             ELSE lastCall.result = ErrInternal /\ Len(lastCall.logs) = 1

C5_Witness ==
    /\ lastCall.op = "Scan"
    /\ lastCall.err = Wrap("scan", ErrRecordNotFound)
    /\ lastCall.result = ErrInternal
    /\ Len(lastCall.logs) = 1

(* C6: what a terminal operation or Commit returns is nil or one of the    *)
(* two sentinels, and never the error the engine reported.                 *)
C6_OnlySentinels ==
    lastCall.op \in Terminals \cup {"Commit"} =>
        /\ lastCall.result \in {Nil, ErrNotFound, ErrInternal}
        /\ lastCall.err # Nil => lastCall.result # lastCall.err

C6_Witness ==
    /\ lastCall.op = "Commit"
    /\ lastCall.txWas = "live"
    /\ lastCall.err = ErrDriver
    /\ lastCall.result = ErrInternal

(* The zero values of the filter types: the zero struct, the nil pointer. *)
ZeroFilters == {[type |-> "User", val |-> <<0>>], [type |-> "*User", val |-> <<>>]}

C8_RollBackLogging ==
    lastCall.op = "RollBack" =>
        /\ lastCall.txWas = "done" => lastCall.logs = <<>>
        /\ lastCall.txWas = "live" => (lastCall.logs # <<>> <=> lastCall.err # Nil)

C8_Witness ==
    /\ lastCall.op = "RollBack"
    /\ lastCall.txWas = "done"
    /\ lastCall.err = Wrap("driver: bad connection", ErrTxDone)
    /\ lastCall.logs = <<>>

(* C9: RollbackWithError returns the error it was given, whatever the      *)
(* rollback reports; a rollback failure is logged only.                    *)
C9_ReturnsGivenError ==
    lastCall.op = "RollbackWithError" =>
        /\ lastCall.result = lastCall.arg
        /\ lastCall.logs # <<>> <=> lastCall.err # Nil

C9_Witness ==
    /\ lastCall.op = "RollbackWithError"
    /\ lastCall.txWas = "live"
    /\ lastCall.err = ErrDriver
    /\ lastCall.arg = <<"business rule">>
    /\ lastCall.result = <<"business rule">>
    /\ Len(lastCall.logs) = 1

(* C11: a terminal operation leaves its receiver as it was: the receiver's *)
(* pending preload queue and the engine handle it holds (the statement the *)
(* handle carries included) are after the operation what they were before, *)
(* so that the next terminal operation on the same receiver meets a handle *)
(* that carries no preload of this one.                                    *)
C11_TerminalLeavesReceiver ==
    [][\A r \in 1..Len(facades) :
          (lastCall'.op \in Terminals /\ lastCall'.recv = r) =>
              /\ facades'[r] = facades[r]
              /\ Queue(r)' = Queue(r)
              /\ dbs'[facades[r].db] = dbs[facades[r].db]]_vars

====
